---- MODULE Spec2Model ----
(***************************************************************************)
(* A model of three source files of the toolkit:                           *)
(*   src/community/tools/eplaw.py         EPLaw.call                       *)
(*   src/community/tools/patentclaims.py  PatentClaims.call                *)
(*   src/backend/routers/agent.py         the agent / tool-metadata routes *)
(* Each file has its own specification (SpecEPLaw, SpecPatent, SpecAgent)  *)
(* over one set of variables; the variables of the other two files stay    *)
(* at their idle values.                                                   *)
(***************************************************************************)
EXTENDS Integers, Sequences, FiniteSets

VARIABLES
    \* ---- EPLaw.call ----
    ep_pc,                \* position in EPLaw.call
    conn,                 \* the weaviate client: "none" | "open" | "closed"
    generated_questions,  \* eplaw.py:55-57
    search_results,       \* eplaw.py:59-67
    object_full,          \* eplaw.py:69-81
    searched,             \* iterations done of the loop at eplaw.py:71
    sorted_objects,       \* eplaw.py:85-87
    ep_result,            \* the returned list, eplaw.py:90-97
    \* ---- PatentClaims.call ----
    pt_pc,                \* position in PatentClaims.call
    auth_response,        \* patentclaims.py:26-32
    response,             \* patentclaims.py:50
    data,                 \* patentclaims.py:31,55,64,66
    claims_in_english,    \* patentclaims.py:62
    pt_result,            \* the returned list, patentclaims.py:68
    \* ---- the agent router and the persistence layer behind it ----
    agents,               \* the persisted agent rows
    tool_metadata,        \* the persisted agent tool-metadata rows
    next_agent_id,        \* the identifier the next agent row gets
    next_metadata_id,     \* the identifier the next tool-metadata row gets
    last                  \* the last request and how its handler ended

ep_vars == <<ep_pc, conn, generated_questions, search_results, object_full,
             searched, sorted_objects, ep_result>>

pt_vars == <<pt_pc, auth_response, response, data, claims_in_english, pt_result>>

ag_vars == <<agents, tool_metadata, next_agent_id, next_metadata_id, last>>

vars == <<ep_vars, pt_vars, ag_vars>>

(***************************************************************************)
(* Bounds of the model                                                     *)
(***************************************************************************)
NumDocs     == 6    \* documents in the EPO_LEGAL_DOCS collection, uuids 1..NumDocs
MaxScore    == 2    \* rerank scores are 1..MaxScore
MaxSearches == 2    \* search queries extracted in one invocation
MaxTextLen  == 2    \* tokens in the chat response that is split on ">>>"
MaxClaims   == 3    \* entries of the claim list the patent service returns
MaxAgents   == 1    \* agent rows ever created
MaxMetadata == 3    \* tool-metadata rows ever created

(***************************************************************************)
(* Program constants                                                       *)
(***************************************************************************)
SearchLimit == 5    \* limit=5 of collection.query.hybrid
TopK        == 5    \* sorted_objects[:5]

Min(a, b) == IF a < b THEN a ELSE b

(***************************************************************************)
(* Strings are sequences of tokens.  ">>>" is the delimiter of the chat    *)
(* response, " " is white space, "w" any other character.                  *)
(***************************************************************************)
Tokens == {">>>", " ", "w"}

RECURSIVE SeqsUpTo(_, _)
SeqsUpTo(S, n) ==
    IF n = 0 THEN {<<>>}
    ELSE LET shorter == SeqsUpTo(S, n - 1)
         IN  shorter \cup {Append(s, x) : s \in {t \in shorter : Len(t) = n - 1}, x \in S}

Texts == SeqsUpTo(Tokens, MaxTextLen)

\* the user's query, parameters.get("query", "")
query == <<"q">>

\* str.split(">>>"): the pieces between the delimiters, empty pieces included
RECURSIVE Split(_)
Split(text) ==
    IF \A i \in 1..Len(text) : text[i] # ">>>" THEN <<text>>
    ELSE LET i == CHOOSE j \in 1..Len(text) :
                     text[j] = ">>>" /\ \A k \in 1..(j - 1) : text[k] # ">>>"
         IN  <<SubSeq(text, 1, i - 1)>> \o Split(SubSeq(text, i + 1, Len(text)))

\* str.strip(): leading and trailing white space removed
RECURSIVE Strip(_)
Strip(s) ==
    IF s = <<>> THEN s
    ELSE IF Head(s) = " " THEN Strip(Tail(s))
    ELSE IF s[Len(s)] = " " THEN Strip(SubSeq(s, 1, Len(s) - 1))
    ELSE s

\* eplaw.py:55-57
GeneratedQuestions(text) ==
    LET parts    == Tail(Split(text))
        stripped == [i \in 1..Len(parts) |-> Strip(parts[i])]
    IN  SelectSeq(stripped, LAMBDA q : q # <<>>) \o <<query>>

(***************************************************************************)
(* Documents.  An object returned by a search carries its uuid, the rerank *)
(* score of that search and src, the number of the search that returned    *)
(* it (the identity of the Python object).                                 *)
(***************************************************************************)
Obj(u, s, i) == [uuid |-> u, rerank_score |-> s, src |-> i]

\* One response of collection.query.hybrid(limit=5): k <= 5 objects with
\* distinct uuids a, a+1, .. and rerank score t.
Response(a, k, t, i) == [j \in 1..k |-> Obj(a + j - 1, t, i)]

\* eplaw.py:83  {obj.uuid: obj for obj in object_full}.values(): a dict keeps
\* the position of the first insertion of a key and the value of the last.
\* a pool that keeps every object
DictValuesKeepAll(objs) == objs

\* a dict that keeps the first object of a uuid
RECURSIVE DictValuesFirstWins(_)
DictValuesFirstWins(objs) ==
    IF objs = <<>> THEN <<>>
    ELSE LET init == DictValuesFirstWins(SubSeq(objs, 1, Len(objs) - 1))
             obj  == objs[Len(objs)]
         IN  IF \E i \in 1..Len(init) : init[i].uuid = obj.uuid
             THEN init
             ELSE Append(init, obj)

RECURSIVE DictValues(_)
DictValues(objs) ==
    IF objs = <<>> THEN <<>>
    ELSE LET init == DictValues(SubSeq(objs, 1, Len(objs) - 1))
             obj  == objs[Len(objs)]
         IN  IF \E i \in 1..Len(init) : init[i].uuid = obj.uuid
             THEN [i \in 1..Len(init) |->
                      IF init[i].uuid = obj.uuid THEN obj ELSE init[i]]
             ELSE Append(init, obj)

\* eplaw.py:85  sorted(..., key=rerank_score, reverse=True): stable, so objects
\* of equal score keep their order.
RECURSIVE InsertDesc(_, _)
InsertDesc(sorted, x) ==
    IF sorted = <<>> THEN <<x>>
    ELSE IF Head(sorted).rerank_score >= x.rerank_score
         THEN <<Head(sorted)>> \o InsertDesc(Tail(sorted), x)
         ELSE <<x>> \o sorted

RECURSIVE SortedDesc(_)
SortedDesc(objs) ==
    IF objs = <<>> THEN <<>>
    ELSE InsertDesc(SortedDesc(SubSeq(objs, 1, Len(objs) - 1)), objs[Len(objs)])

\* no truncation
TruncateNone(objs) == objs

\* eplaw.py:87  sorted_objects[:5]
Truncate(objs) == SubSeq(objs, 1, Min(TopK, Len(objs)))

\* the first five of the pool, sorted
RankTruncateFirst(objs) == SortedDesc(Truncate(DictValues(objs)))

\* eplaw.py:83-87
Rank(objs) == Truncate(SortedDesc(DictValues(objs)))

\* eplaw.py:90-97
ToDocument(doc) ==
    [text |-> <<"text", doc.uuid>>, title |-> <<"title", doc.uuid>>,
     url |-> <<"url", doc.uuid>>]

(***************************************************************************)
(* EPLaw.call                                                              *)
(***************************************************************************)
EPInit ==
    /\ ep_pc = "connect"
    /\ conn = "none"
    /\ generated_questions = <<>>
    /\ search_results = <<>>
    /\ object_full = <<>>
    /\ searched = 0
    /\ sorted_objects = <<>>
    /\ ep_result = <<>>

\* eplaw.py:27-42  connect, configure the integrations, get the collection
EPConnect ==
    /\ ep_pc = "connect"
    /\ \/ /\ conn' = "none"           \* connect_to_local raises
          /\ ep_pc' = "raised"
       \/ /\ conn' = "open"           \* configure or collections.get raises
          /\ ep_pc' = "raised"
       \/ /\ conn' = "open"
          /\ ep_pc' = "expand"
    /\ UNCHANGED <<generated_questions, search_results, object_full, searched,
                   sorted_objects, ep_result>>

\* eplaw.py:49-57  the query expansion
EPExpand ==
    /\ ep_pc = "expand"
    /\ \/ /\ ep_pc' = "raised"        \* co.chat raises
          /\ UNCHANGED generated_questions
       \/ \E text \in Texts :
            /\ generated_questions' = GeneratedQuestions(text)
            /\ ep_pc' = "extract"
    /\ UNCHANGED <<conn, search_results, object_full, searched, sorted_objects,
                   ep_result>>

\* eplaw.py:60-67  the search queries of every generated question
EPExtract ==
    /\ ep_pc = "extract"
    /\ \/ /\ ep_pc' = "raised"        \* a co.chat raises
          /\ UNCHANGED search_results
       \/ \E n \in 0..MaxSearches :
            \* n search queries in all, every question yields zero or more
            /\ search_results' = [i \in 1..n |-> <<"s", i>>]
            /\ ep_pc' = "search"
    /\ UNCHANGED <<conn, generated_questions, object_full, searched,
                   sorted_objects, ep_result>>

\* eplaw.py:71-81  one iteration of the loop over the search queries
EPSearch ==
    /\ ep_pc = "search"
    /\ searched < Len(search_results)
    /\ \/ /\ ep_pc' = "raised"        \* collection.query.hybrid raises
          /\ UNCHANGED <<object_full, searched>>
       \/ \E k \in 0..SearchLimit, t \in 1..MaxScore :
          \E a \in 1..(NumDocs - k + 1) :
            /\ (k = 0) => (a = 1 /\ t = 1)
            /\ object_full' = object_full \o Response(a, k, t, searched + 1)
            /\ searched' = searched + 1
            /\ UNCHANGED ep_pc
    /\ UNCHANGED <<conn, generated_questions, search_results, sorted_objects,
                   ep_result>>

\* eplaw.py:83-97  deduplicate, sort, truncate, close the client, return
EPFinish ==
    /\ ep_pc = "search"
    /\ searched = Len(search_results)
    /\ sorted_objects' = Rank(object_full)
    /\ conn' = "closed"
    /\ ep_result' = [i \in 1..Len(sorted_objects') |-> ToDocument(sorted_objects'[i])]
    /\ ep_pc' = "done"
    /\ UNCHANGED <<generated_questions, search_results, object_full, searched>>

EPIdle ==
    /\ ep_pc = "idle"
    /\ conn = "none"
    /\ generated_questions = <<>>
    /\ search_results = <<>>
    /\ object_full = <<>>
    /\ searched = 0
    /\ sorted_objects = <<>>
    /\ ep_result = <<>>

(***************************************************************************)
(* PatentClaims.call                                                       *)
(*                                                                         *)
(* A Python local is a record [bound, val]: reading a local that no        *)
(* assignment has bound raises UnboundLocalError.  An HTTP response is a   *)
(* record [none, status_code, claims]; none marks Python's None, whose     *)
(* attribute access raises AttributeError.                                 *)
(***************************************************************************)
StatusCodes == {200, 401, 500}
Langs == {"EN", "en", "DE", "None"}    \* "None": the entry has no '@lang' key

Unbound    == [bound |-> FALSE, val |-> <<>>]
Bound(v)   == [bound |-> TRUE, val |-> v]
NoResponse == [none |-> TRUE, status_code |-> 0, claims |-> <<>>]
HttpResponse(st, cl) == [none |-> FALSE, status_code |-> st, claims |-> cl]

\* The claim lists of a response body: entry i is the i-th claim, its text is
\* its number and its '@lang' tag is one of Langs.  A body without the
\* 'claims' key gives the default [] of the .get chain, patentclaims.py:56-59.
ClaimLists ==
    {[i \in 1..Len(ls) |-> [lang |-> ls[i], n |-> i]] : ls \in SeqsUpTo(Langs, MaxClaims)}

\* A piece of text: a literal string, or the repr of a claim
Lit(str)    == [kind |-> str, lang |-> "", n |-> 0]
Repr(claim) == [kind |-> "claim", lang |-> claim.lang, n |-> claim.n]

\* f"{list}": "[", the reprs of the entries separated by ", ", "]"
RECURSIVE Joined(_)
Joined(list) ==
    IF list = <<>> THEN <<>>
    ELSE IF Len(list) = 1 THEN <<Repr(list[1])>>
    ELSE <<Repr(list[1]), Lit(", ")>> \o Joined(Tail(list))

Format(list) == <<Lit("[")>> \o Joined(list) \o <<Lit("]")>>

\* a filter that ignores the case of the tag
RECURSIVE EnglishAnyCase(_)
EnglishAnyCase(claims) ==
    IF claims = <<>> THEN <<>>
    ELSE IF Head(claims).lang \in {"EN", "en"}
         THEN <<Head(claims)>> \o EnglishAnyCase(Tail(claims))
         ELSE EnglishAnyCase(Tail(claims))

\* patentclaims.py:62  [claim for claim in claims if claim.get('@lang') == 'EN']
RECURSIVE EnglishOnly(_)
EnglishOnly(claims) ==
    IF claims = <<>> THEN <<>>
    ELSE IF Head(claims).lang = "EN"
         THEN <<Head(claims)>> \o EnglishOnly(Tail(claims))
         ELSE EnglishOnly(Tail(claims))

TokenError == "Error: Failed to obtain access token"
DataError  == "Error: Failed to retrieve data"

PTInit ==
    /\ pt_pc = "token"
    /\ auth_response = NoResponse
    /\ response = NoResponse
    /\ data = Unbound
    /\ claims_in_english = Unbound
    /\ pt_result = <<>>

PTIdle ==
    /\ pt_pc = "idle"
    /\ auth_response = NoResponse
    /\ response = NoResponse
    /\ data = Unbound
    /\ claims_in_english = Unbound
    /\ pt_result = <<>>

\* patentclaims.py:25-32  the token request
PTToken ==
    /\ pt_pc = "token"
    /\ \/ /\ auth_response' = NoResponse          \* requests.post raises
          /\ data' = Bound(<<Lit(TokenError)>>)
       \/ \E st \in StatusCodes :
            /\ auth_response' = HttpResponse(st, <<>>)
            /\ UNCHANGED data
    /\ pt_pc' = "check"
    /\ UNCHANGED <<response, claims_in_english, pt_result>>

\* patentclaims.py:34-66  the branch on the token status and the claims request
PTFetch ==
    /\ pt_pc = "check"
    /\ IF auth_response.none
       THEN \* auth_response.status_code on None
            /\ pt_pc' = "AttributeError"
            /\ UNCHANGED <<response, data, claims_in_english>>
       ELSE IF auth_response.status_code = 200
       THEN \/ /\ pt_pc' = "RequestException"      \* requests.get raises
               /\ UNCHANGED <<response, data, claims_in_english>>
            \/ \E st \in StatusCodes, cl \in ClaimLists :
                 /\ (st # 200) => (cl = <<>>)
                 /\ response' = HttpResponse(st, cl)
                 /\ IF st = 200
                    THEN /\ data' = Bound(cl)
                         /\ claims_in_english' = Bound(EnglishOnly(cl))
                    ELSE /\ data' = Bound(<<Lit(DataError)>>)
                         /\ UNCHANGED claims_in_english
                 /\ pt_pc' = "return"
       ELSE /\ data' = Bound(<<Lit(TokenError)>>)
            /\ pt_pc' = "return"
            /\ UNCHANGED <<response, claims_in_english>>
    /\ UNCHANGED <<auth_response, pt_result>>

\* patentclaims.py:68  return [{"text": f"{claims_in_english}"}]
PTReturn ==
    /\ pt_pc = "return"
    /\ IF claims_in_english.bound
       THEN /\ pt_result' = <<[text |-> Format(claims_in_english.val)]>>
            /\ pt_pc' = "done"
       ELSE /\ pt_pc' = "UnboundLocalError"
            /\ UNCHANGED pt_result
    /\ UNCHANGED <<auth_response, response, data, claims_in_english>>

(***************************************************************************)
(* The persistence layer (backend.crud.agent, backend.crud.                *)
(* agent_tool_metadata).  An agent row is [id, name]: name stands for the  *)
(* fields a create or update payload sets.  A tool-metadata row is         *)
(* [id, agent_id, tool_name].  NoRow is Python's None.  Identifiers are    *)
(* assigned in sequence and never reused.  A call that raises changes      *)
(* nothing.                                                                *)
(***************************************************************************)
Names == {"a", "b"}
Tools == {"t1", "t2"}
NoRow == [id |-> 0]

crud_create_agent(rows, id, name) == rows \cup {[id |-> id, name |-> name]}

crud_get_agent_by_id(rows, id) ==
    IF \E r \in rows : r.id = id THEN CHOOSE r \in rows : r.id = id ELSE NoRow

crud_update_agent(rows, agent, name) ==
    {IF r.id = agent.id THEN [r EXCEPT !.name = name] ELSE r : r \in rows}

crud_delete_agent(rows, id) == {r \in rows : r.id # id}

crud_create_agent_tool_metadata(rows, id, agent_id, tool_name) ==
    rows \cup {[id |-> id, agent_id |-> agent_id, tool_name |-> tool_name]}

crud_get_agent_tool_metadata_by_id(rows, id) ==
    IF \E r \in rows : r.id = id THEN CHOOSE r \in rows : r.id = id ELSE NoRow

crud_update_agent_tool_metadata(rows, metadata, tool_name) ==
    {IF r.id = metadata.id THEN [r EXCEPT !.tool_name = tool_name] ELSE r : r \in rows}

crud_delete_agent_tool_metadata_by_id(rows, id) == {r \in rows : r.id # id}

(***************************************************************************)
(* The handlers of src/backend/routers/agent.py.  Any persistence call of  *)
(* a request may raise.  last records the request: op, the identifier it   *)
(* names (arg), whether that identifier was persisted when the request     *)
(* arrived (found), the persistence calls made (calls, the raising one     *)
(* included), fail (the number of the call that raised, 0: none did), and  *)
(* how the handler ended: outcome "return", "HTTPException" or "Exception" *)
(* (an exception of the persistence layer leaving the handler as it is),   *)
(* with status_code and detail.                                            *)
(***************************************************************************)
\* str(e) of the exception a persistence call raises
ErrorOf(call) == "error in " \o call

\* a handler without the check
FalsyNever(row) == FALSE

\* `if not agent:` / `if not agent_tool_metadata:`
Falsy(row) == row = NoRow

Request(op, arg, found, calls, fail, outcome, status_code, detail) ==
    [op |-> op, arg |-> arg, found |-> found, calls |-> calls, fail |-> fail,
     outcome |-> outcome, status_code |-> status_code, detail |-> detail,
     entries |-> <<>>, agent_id |-> 0]

Returned(op, arg, found, calls) == Request(op, arg, found, calls, 0, "return", 200, "")

\* raise HTTPException(status_code=500, detail=str(e))
ServerError(op, arg, found, calls) ==
    Request(op, arg, found, calls, Len(calls), "HTTPException", 500,
            ErrorOf(calls[Len(calls)]))

\* raise HTTPException(status_code=400, detail=f"... not found.")
NotFound(op, arg, calls) ==
    Request(op, arg, FALSE, calls, 0, "HTTPException", 400, "not found")

\* an exception raised outside every try block
Unhandled(op, arg, found, calls) ==
    Request(op, arg, found, calls, Len(calls), "Exception", 0, ErrorOf(calls[Len(calls)]))

AgentIds    == 0..MaxAgents        \* 0 is an identifier no row ever has
MetadataIds == 0..MaxMetadata
EntryLists  == SeqsUpTo(Tools, MaxMetadata)

HasAgent(id)    == \E r \in agents : r.id = id
HasMetadata(id) == \E r \in tool_metadata : r.id = id

AGInit ==
    /\ agents = {}
    /\ tool_metadata = {}
    /\ next_agent_id = 1
    /\ next_metadata_id = 1
    /\ last = Request("none", 0, FALSE, <<>>, 0, "return", 200, "")

AGIdle == AGInit

\* a loop that goes on after a failed insert
InsertedEntriesAll(n, fail) == n

\* agent.py:75-84: the entries of tools_metadata whose insert succeeds, when
\* persistence call number fail raises (call 1 creates the agent, call k + 1
\* inserts entry k; 0: no call raises)
InsertedEntries(n, fail) == IF fail = 0 THEN n ELSE fail - 2

\* agent.py:43-87
create_agent ==
    \E name \in Names, tools_metadata \in EntryLists :
    \E fail \in 0..(1 + Len(tools_metadata)) :
      LET n        == Len(tools_metadata)
          inserted == InsertedEntries(n, fail)
          made     == IF fail = 0 THEN n + 1 ELSE fail
          calls    == [c \in 1..made |->
                         IF c = 1 THEN "create_agent" ELSE "create_agent_tool_metadata"]
          created  == fail # 1
          outcome  == IF fail = 0
                      THEN Returned("create_agent", 0, FALSE, calls)
                      ELSE ServerError("create_agent", 0, FALSE, calls)
      IN  /\ next_agent_id <= MaxAgents
          /\ next_metadata_id + n - 1 <= MaxMetadata
          /\ IF created
             THEN /\ agents' = crud_create_agent(agents, next_agent_id, name)
                  /\ next_agent_id' = next_agent_id + 1
                  /\ tool_metadata' = tool_metadata \cup
                        {[id |-> next_metadata_id + k - 1, agent_id |-> next_agent_id,
                          tool_name |-> tools_metadata[k]] : k \in 1..inserted}
                  /\ next_metadata_id' = next_metadata_id + inserted
             ELSE UNCHANGED <<agents, next_agent_id, tool_metadata, next_metadata_id>>
          /\ last' = [outcome EXCEPT !.entries = tools_metadata,
                         !.agent_id = IF created THEN next_agent_id ELSE 0]

\* agent.py:90-109
list_agents ==
      /\ \/ last' = Returned("list_agents", 0, FALSE, <<"get_agents">>)
         \/ last' = ServerError("list_agents", 0, FALSE, <<"get_agents">>)
      /\ UNCHANGED <<agents, tool_metadata, next_agent_id, next_metadata_id>>

\* agent.py:112-139
get_agent_by_id ==
    \E agent_id \in AgentIds :
      LET op    == "get_agent_by_id"
          found == HasAgent(agent_id)
          agent == crud_get_agent_by_id(agents, agent_id)
          calls == <<"get_agent_by_id">>
      IN  /\ \/ last' = ServerError(op, agent_id, found, calls)     \* the lookup raises
             \/ last' = IF Falsy(agent) THEN NotFound(op, agent_id, calls)
                        ELSE Returned(op, agent_id, found, calls)
          /\ UNCHANGED <<agents, tool_metadata, next_agent_id, next_metadata_id>>

\* agent.py:150-184
update_agent ==
    \E agent_id \in AgentIds :
      LET op    == "update_agent"
          found == HasAgent(agent_id)
          agent == crud_get_agent_by_id(agents, agent_id)
          look  == <<"get_agent_by_id">>
          calls == <<"get_agent_by_id", "update_agent">>
      IN  \/ /\ last' = Unhandled(op, agent_id, found, look)        \* the lookup raises
             /\ UNCHANGED <<agents, tool_metadata, next_agent_id, next_metadata_id>>
          \/ /\ Falsy(agent)
             /\ last' = NotFound(op, agent_id, look)
             /\ UNCHANGED <<agents, tool_metadata, next_agent_id, next_metadata_id>>
          \/ /\ ~Falsy(agent)
             /\ last' = ServerError(op, agent_id, found, calls)     \* the update raises
             /\ UNCHANGED <<agents, tool_metadata, next_agent_id, next_metadata_id>>
          \/ /\ ~Falsy(agent)
             /\ \E new_agent \in Names :
                   agents' = crud_update_agent(agents, agent, new_agent)
             /\ last' = Returned(op, agent_id, found, calls)
             /\ UNCHANGED <<tool_metadata, next_agent_id, next_metadata_id>>

\* agent.py:187-219
delete_agent ==
    \E agent_id \in AgentIds :
      LET op    == "delete_agent"
          found == HasAgent(agent_id)
          agent == crud_get_agent_by_id(agents, agent_id)
          look  == <<"get_agent_by_id">>
          calls == <<"get_agent_by_id", "delete_agent">>
      IN  \/ /\ last' = Unhandled(op, agent_id, found, look)        \* the lookup raises
             /\ UNCHANGED <<agents, tool_metadata, next_agent_id, next_metadata_id>>
          \/ /\ Falsy(agent)
             /\ last' = NotFound(op, agent_id, look)
             /\ UNCHANGED <<agents, tool_metadata, next_agent_id, next_metadata_id>>
          \/ /\ ~Falsy(agent)
             /\ last' = ServerError(op, agent_id, found, calls)     \* the delete raises
             /\ UNCHANGED <<agents, tool_metadata, next_agent_id, next_metadata_id>>
          \/ /\ ~Falsy(agent)
             /\ agents' = crud_delete_agent(agents, agent_id)
             /\ last' = Returned(op, agent_id, found, calls)
             /\ UNCHANGED <<tool_metadata, next_agent_id, next_metadata_id>>

\* agent.py:225-248
list_agent_tool_metadata ==
    \E agent_id \in AgentIds :
      LET op    == "list_agent_tool_metadata"
          calls == <<"get_all_agent_tool_metadata_by_agent_id">>
      IN  /\ \/ last' = Returned(op, agent_id, HasAgent(agent_id), calls)
             \/ last' = ServerError(op, agent_id, HasAgent(agent_id), calls)
          /\ UNCHANGED <<agents, tool_metadata, next_agent_id, next_metadata_id>>

\* agent.py:251-296: agent_id is the path parameter, stored as it is given; the
\* requests name an agent that is or was persisted
create_agent_tool_metadata ==
    \E agent_id \in 1..(next_agent_id - 1) :
      LET op    == "create_agent_tool_metadata"
          found == HasAgent(agent_id)
          calls == <<"create_agent_tool_metadata">>
      IN  /\ next_metadata_id <= MaxMetadata
          /\ \/ /\ last' = ServerError(op, agent_id, found, calls)  \* the insert raises
                /\ UNCHANGED <<tool_metadata, next_metadata_id>>
             \/ /\ \E tool_name \in Tools :
                      tool_metadata' = crud_create_agent_tool_metadata(
                                           tool_metadata, next_metadata_id, agent_id, tool_name)
                /\ next_metadata_id' = next_metadata_id + 1
                /\ last' = Returned(op, agent_id, found, calls)
          /\ UNCHANGED <<agents, next_agent_id>>

\* agent.py:299-341: the path's agent_id is not used
update_agent_tool_metadata ==
    \E agent_tool_metadata_id \in MetadataIds :
      LET op    == "update_agent_tool_metadata"
          found == HasMetadata(agent_tool_metadata_id)
          agent_tool_metadata ==
              crud_get_agent_tool_metadata_by_id(tool_metadata, agent_tool_metadata_id)
          look  == <<"get_agent_tool_metadata_by_id">>
          calls == <<"get_agent_tool_metadata_by_id", "update_agent_tool_metadata">>
      IN  \/ /\ last' = Unhandled(op, agent_tool_metadata_id, found, look)
             /\ UNCHANGED <<agents, tool_metadata, next_agent_id, next_metadata_id>>
          \/ /\ Falsy(agent_tool_metadata)
             /\ last' = NotFound(op, agent_tool_metadata_id, look)
             /\ UNCHANGED <<agents, tool_metadata, next_agent_id, next_metadata_id>>
          \/ /\ ~Falsy(agent_tool_metadata)
             /\ last' = ServerError(op, agent_tool_metadata_id, found, calls)
             /\ UNCHANGED <<agents, tool_metadata, next_agent_id, next_metadata_id>>
          \/ /\ ~Falsy(agent_tool_metadata)
             /\ \E new_agent_tool_metadata \in Tools :
                   tool_metadata' = crud_update_agent_tool_metadata(
                       tool_metadata, agent_tool_metadata, new_agent_tool_metadata)
             /\ last' = Returned(op, agent_tool_metadata_id, found, calls)
             /\ UNCHANGED <<agents, next_agent_id, next_metadata_id>>

\* agent.py:344-381: the path's agent_id is not used
delete_agent_tool_metadata ==
    \E agent_tool_metadata_id \in MetadataIds :
      LET op    == "delete_agent_tool_metadata"
          found == HasMetadata(agent_tool_metadata_id)
          agent_tool_metadata ==
              crud_get_agent_tool_metadata_by_id(tool_metadata, agent_tool_metadata_id)
          look  == <<"get_agent_tool_metadata_by_id">>
          calls == <<"get_agent_tool_metadata_by_id", "delete_agent_tool_metadata_by_id">>
      IN  \/ /\ last' = Unhandled(op, agent_tool_metadata_id, found, look)
             /\ UNCHANGED <<agents, tool_metadata, next_agent_id, next_metadata_id>>
          \/ /\ Falsy(agent_tool_metadata)
             /\ last' = NotFound(op, agent_tool_metadata_id, look)
             /\ UNCHANGED <<agents, tool_metadata, next_agent_id, next_metadata_id>>
          \/ /\ ~Falsy(agent_tool_metadata)
             /\ last' = ServerError(op, agent_tool_metadata_id, found, calls)
             /\ UNCHANGED <<agents, tool_metadata, next_agent_id, next_metadata_id>>
          \/ /\ ~Falsy(agent_tool_metadata)
             /\ tool_metadata' = crud_delete_agent_tool_metadata_by_id(
                                     tool_metadata, agent_tool_metadata_id)
             /\ last' = Returned(op, agent_tool_metadata_id, found, calls)
             /\ UNCHANGED <<agents, next_agent_id, next_metadata_id>>

(***************************************************************************)
(* The specifications                                                      *)
(***************************************************************************)
InitEPLaw == EPInit /\ PTIdle /\ AGIdle
NextEPLaw ==
    \/ EPConnect /\ UNCHANGED <<pt_vars, ag_vars>>
    \/ EPExpand /\ UNCHANGED <<pt_vars, ag_vars>>
    \/ EPExtract /\ UNCHANGED <<pt_vars, ag_vars>>
    \/ EPSearch /\ UNCHANGED <<pt_vars, ag_vars>>
    \/ EPFinish /\ UNCHANGED <<pt_vars, ag_vars>>
SpecEPLaw == InitEPLaw /\ [][NextEPLaw]_vars

InitPatent == PTInit /\ EPIdle /\ AGIdle
NextPatent ==
    \/ PTToken /\ UNCHANGED <<ep_vars, ag_vars>>
    \/ PTFetch /\ UNCHANGED <<ep_vars, ag_vars>>
    \/ PTReturn /\ UNCHANGED <<ep_vars, ag_vars>>
SpecPatent == InitPatent /\ [][NextPatent]_vars

InitAgent == AGInit /\ EPIdle /\ PTIdle
NextAgent ==
    \/ create_agent /\ UNCHANGED <<ep_vars, pt_vars>>
    \/ list_agents /\ UNCHANGED <<ep_vars, pt_vars>>
    \/ get_agent_by_id /\ UNCHANGED <<ep_vars, pt_vars>>
    \/ update_agent /\ UNCHANGED <<ep_vars, pt_vars>>
    \/ delete_agent /\ UNCHANGED <<ep_vars, pt_vars>>
    \/ list_agent_tool_metadata /\ UNCHANGED <<ep_vars, pt_vars>>
    \/ create_agent_tool_metadata /\ UNCHANGED <<ep_vars, pt_vars>>
    \/ update_agent_tool_metadata /\ UNCHANGED <<ep_vars, pt_vars>>
    \/ delete_agent_tool_metadata /\ UNCHANGED <<ep_vars, pt_vars>>
SpecAgent == InitAgent /\ [][NextAgent]_vars

(***************************************************************************)
(* Properties of EPLaw.call (SpecEPLaw)                                    *)
(***************************************************************************)
Range(f) == {f[i] : i \in DOMAIN f}

\* the positions of object_full that hold the last object of their uuid
LastPositions ==
    {i \in 1..Len(object_full) :
        \A j \in (i + 1)..Len(object_full) : object_full[j].uuid # object_full[i].uuid}

\* the deduplicated pool, one object for every uuid some search returned
Pool == {object_full[i] : i \in LastPositions}

\* C1: when EPLaw.call returns, the documents behind the returned list have
\* pairwise distinct uuids, and every uuid contributes at most one entry of
\* the returned list.
C1_DistinctUuids ==
    ep_pc = "done" =>
        /\ Len(ep_result) = Len(sorted_objects)
        /\ \A i, j \in 1..Len(sorted_objects) :
              i # j => sorted_objects[i].uuid # sorted_objects[j].uuid
        /\ \A i, j \in 1..Len(ep_result) :
              i # j => ep_result[i].text # ep_result[j].text

\* a call returned a uuid that two searches had both returned
C1_Witness ==
    /\ ep_pc = "done"
    /\ \E i, j \in 1..Len(object_full) :
          /\ object_full[i].uuid = object_full[j].uuid
          /\ object_full[i].src # object_full[j].src
          /\ \E k \in 1..Len(sorted_objects) : sorted_objects[k].uuid = object_full[i].uuid

\* C2: when EPLaw.call returns, the returned list has at most 5 entries and
\* the rerank scores behind consecutive entries are non-increasing.
C2_AtMostFiveSorted ==
    ep_pc = "done" =>
        /\ Len(ep_result) <= 5
        /\ Len(sorted_objects) = Len(ep_result)
        /\ \A i \in 1..(Len(sorted_objects) - 1) :
              sorted_objects[i].rerank_score >= sorted_objects[i + 1].rerank_score

\* a call returned five entries of a pool of more than five documents, with
\* two different scores among them
C2_Witness ==
    /\ ep_pc = "done"
    /\ Cardinality(Pool) > 5
    /\ Len(ep_result) = 5
    /\ sorted_objects[1].rerank_score > sorted_objects[5].rerank_score

\* C9: the returned entries are the top min(5, m) documents of the
\* deduplicated pool of m documents: they are documents of the pool, and no
\* document of the pool that is left out has a strictly higher rerank score
\* than one that is in.
C9_TopOfPool ==
    ep_pc = "done" =>
        LET pool == Pool
            kept == Range(sorted_objects)
        IN  /\ kept \subseteq pool
            /\ Len(sorted_objects) = Min(5, Cardinality(pool))
            /\ Cardinality(kept) = Len(sorted_objects)
            /\ \A x \in pool \ kept : \A y \in kept : x.rerank_score <= y.rerank_score

\* a call left out a document that an earlier search had returned than a
\* document it kept, the kept one having the higher score
C9_Witness ==
    /\ ep_pc = "done"
    /\ \E x \in Pool \ Range(sorted_objects) :
          \E y \in Range(sorted_objects) :
             /\ x.src < y.src
             /\ x.rerank_score < y.rerank_score

\* C10: the object kept for a uuid is the one of the last search that
\* returned the uuid, and the score it is ranked by is that object's.
C10_LastWins ==
    ep_pc = "done" =>
        \A k \in 1..Len(sorted_objects) :
            /\ sorted_objects[k] \in Pool
            /\ \A i \in 1..Len(object_full) :
                  object_full[i].uuid = sorted_objects[k].uuid
                      => object_full[i].src <= sorted_objects[k].src

\* a call returned a uuid that two searches had returned with different scores
C10_Witness ==
    /\ ep_pc = "done"
    /\ \E i, j \in 1..Len(object_full) :
          /\ i < j
          /\ object_full[i].uuid = object_full[j].uuid
          /\ object_full[i].rerank_score # object_full[j].rerank_score
          /\ \E k \in 1..Len(sorted_objects) : sorted_objects[k] = object_full[j]

\* C7: an invocation that has ended, by returning or by an exception, has no
\* open connection.
C7_ClosedOnEveryExit ==
    ep_pc \in {"done", "raised"} => conn # "open"

(***************************************************************************)
(* Properties of PatentClaims.call (SpecPatent)                            *)
(***************************************************************************)
PTEnded == pt_pc \in {"done", "AttributeError", "RequestException", "UnboundLocalError"}

TokenFailed == auth_response.none \/ auth_response.status_code # 200

FetchFailed == ~TokenFailed /\ ~response.none /\ response.status_code # 200

\* C3: a call whose token request failed returns the one-element list with
\* the text "Error: Failed to obtain access token", and a call whose claims
\* request answered with another status than 200 returns a one-element list
\* with an error text; neither raises.
C3_ErrorsAreReturned ==
    /\ (PTEnded /\ TokenFailed) =>
          (pt_pc = "done" /\ pt_result = <<[text |-> <<Lit(TokenError)>>]>>)
    /\ (PTEnded /\ FetchFailed) =>
          (pt_pc = "done" /\ pt_result = <<[text |-> <<Lit(DataError)>>]>>)

\* C8: when both requests answer 200, the call returns one element whose text
\* is the rendering of exactly the entries of the claim list tagged 'EN', in
\* their order.
C8_EnglishOnly ==
    (PTEnded /\ ~TokenFailed /\ ~response.none /\ response.status_code = 200) =>
        LET claims == response.claims
            en     == {i \in 1..Len(claims) : claims[i].lang = "EN"}
            text   == pt_result[1].text
            shown  == {i \in 1..Len(text) : text[i].kind = "claim"}
        IN  /\ pt_pc = "done"
            /\ Len(pt_result) = 1
            /\ Cardinality(shown) = Cardinality(en)
            /\ \A i \in shown : text[i].lang = "EN" /\ text[i].n \in en
            /\ \A i, j \in shown : i < j => text[i].n < text[j].n
            /\ text[1] = Lit("[") /\ text[Len(text)] = Lit("]")
            /\ Len(text) = 2 + Cardinality(en) + (IF en = {} THEN 0 ELSE Cardinality(en) - 1)

\* a call returned two 'EN' entries of a list that has entries with other
\* tags before and between them
C8_Witness ==
    /\ pt_pc = "done"
    /\ Len(response.claims) = 3
    /\ response.claims[1].lang = "en"
    /\ response.claims[2].lang = "EN"
    /\ response.claims[3].lang = "EN"
    /\ Len(pt_result[1].text) = 5

(***************************************************************************)
(* Properties of the agent router (SpecAgent)                              *)
(***************************************************************************)
LookupFirst == {"get_agent_by_id", "update_agent", "delete_agent",
                "update_agent_tool_metadata", "delete_agent_tool_metadata"}

Writes == {"update_agent", "delete_agent", "update_agent_tool_metadata",
           "delete_agent_tool_metadata_by_id"}

\* the calls of the last request after its lookup
AfterLookup == {last.calls[i] : i \in 2..Len(last.calls)}

C5_FailuresBecome500 ==
    last.fail # 0 =>
        /\ last.outcome = "HTTPException"
        /\ last.status_code = 500
        /\ last.detail = ErrorOf(last.calls[last.fail])

\* C6: when the insert of entry k of n fails in create_agent, the request
\* ends in HTTP 500, the agent row and the rows of entries 1..k-1 are
\* persisted, and no row of entries k..n is.
C6_PartialCreate ==
    (last.op = "create_agent" /\ last.fail >= 2) =>
        LET k    == last.fail - 1
            rows == {r \in tool_metadata : r.agent_id = last.agent_id}
        IN  /\ last.outcome = "HTTPException"
            /\ last.status_code = 500
            /\ \E a \in agents : a.id = last.agent_id
            /\ Cardinality(rows) = k - 1
            /\ \A j \in 1..(k - 1) :
                  \E r \in rows : /\ r.id = next_metadata_id - k + j
                                  /\ r.tool_name = last.entries[j]

\* the insert of the second of three entries failed
C6_Witness ==
    /\ last.op = "create_agent"
    /\ Len(last.entries) = 3
    /\ last.fail = 3
    /\ Cardinality(tool_metadata) = 1
====
